---- MODULE Spec2Model ----
(***************************************************************************)
(* Model of main.py: the /generate handler of the Smart Trip Planner       *)
(* Agent, its Search Tool (perform_web_search), the prompt it composes and  *)
(* the Itinerary schema the final model text is validated against.          *)
(*                                                                         *)
(* Representation.                                                         *)
(*  - Query strings are sequences of one-character strings, so that         *)
(*    str.lower() and the substring test of perform_web_search are          *)
(*    computed character by character.                                      *)
(*  - A JSON value is a tagged record: [str |-> s], [num |-> n],            *)
(*    [null |-> TRUE], [arr |-> <<v1, ...>>], [obj |-> f] with f a function *)
(*    from the object's keys to JSON values.                                *)
(*  - A text is [json |-> v] (the JSON encoding of v), [fenced |-> v] (the  *)
(*    same inside a markdown code fence) or [garbage |-> s] (prose).        *)
(*  - The hosted model is the environment: each send_message either         *)
(*    returns a reply chosen from Replies or raises.                        *)
(*                                                                         *)
(* Specifications.                                                         *)
(*  - Spec, LiveSpec: one accepted request, from acceptance to its outcome. *)
(*  - StartupSpec: the process from import on, serving one request after    *)
(*    another.                                                              *)
(*  - ConcSpec: NumRequests invocations of the handler, their steps         *)
(*    interleaved.                                                          *)
(***************************************************************************)
EXTENDS Integers, Sequences, FiniteSets, TLC

\* ------------------------------------------------------------------ bounds
\* longest padding put in front of a query that embeds the recognised phrase
MaxPad == 1
\* longest query built freely from ShortAlphabet
MaxShortLen == 2
\* most days in a generated itinerary text
MaxDays == 2

\* ------------------------------------------------------- character strings
UpperCase == <<"A","B","C","D","E","F","G","H","I","J","K","L","M",
               "N","O","P","Q","R","S","T","U","V","W","X","Y","Z">>
LowerCase == <<"a","b","c","d","e","f","g","h","i","j","k","l","m",
               "n","o","p","q","r","s","t","u","v","w","x","y","z">>

\* str.lower() on one character
LowerChar(c) ==
    IF \E i \in 1..Len(UpperCase) : UpperCase[i] = c
    THEN LowerCase[CHOOSE i \in 1..Len(UpperCase) : UpperCase[i] = c]
    ELSE c

\* str.upper() on one character (used only to build inputs)
UpperChar(c) ==
    IF \E i \in 1..Len(LowerCase) : LowerCase[i] = c
    THEN UpperCase[CHOOSE i \in 1..Len(LowerCase) : LowerCase[i] = c]
    ELSE c

\* str.lower()
Lower(s) == [i \in 1..Len(s) |-> LowerChar(s[i])]

\* Python's `needle in hay` on strings
Contains(needle, hay) ==
    \E i \in 0..(Len(hay) - Len(needle)) :
        SubSeq(hay, i + 1, i + Len(needle)) = needle

\* the literal on line 44, capital K included
Needle == <<"r","e","s","t","a","u","r","a","n","t","s"," ",
            "i","n"," ","K","y","o","t","o">>

\* ------------------------------------------------------------- JSON values
Str(s) == [str |-> s]
Num(n) == [num |-> n]
JNull == [null |-> TRUE]
Arr(seq) == [arr |-> seq]
Obj(f) == [obj |-> f]
JsonText(v) == [json |-> v]

IsStr(v) == DOMAIN v = {"str"}
IsArr(v) == DOMAIN v = {"arr"}
IsObj(v) == DOMAIN v = {"obj"}

\* ------------------------------------------------------------- Search Tool
SampleEntry(name, rating, type) ==
    Obj([k \in {"name", "rating", "type"} |->
            IF k = "name" THEN Str(name)
            ELSE IF k = "rating" THEN Num(rating) ELSE Str(type)])

\* lines 46-49; ratings 4.5 and 4.3 are kept in tenths
SampleResults ==
    Arr(<<SampleEntry("Kikunoi Roan", 45, "Kaiseki"),
          SampleEntry("Gogyo Ramen", 43, "Ramen")>>)

\* line 51
NoInfoMarker == Str("No real-time information found for this query.")

ResultsObject(v) == JsonText(Obj([k \in {"results"} |-> v]))

\* faulty variant: the test looks for the word "restaurants" alone
perform_web_search_anyRestaurants(query) ==
    IF Contains(SubSeq(Needle, 1, 11), Lower(query))
    THEN ResultsObject(SampleResults)
    ELSE ResultsObject(NoInfoMarker)

\* perform_web_search, lines 37-51, for a query that is a string
perform_web_search(query) ==
    IF Contains(Needle, Lower(query))
    THEN ResultsObject(SampleResults)
    ELSE ResultsObject(NoInfoMarker)

\* ------------------------------------------------------------------ schema
ItemFields == {"time", "activity", "location"}
DayFields == {"date", "summary", "items"}
ItineraryFields == {"title", "startDate", "endDate", "days"}

Ok(v) == [ok |-> v]
Err(e) == [err |-> e]
IsOk(r) == DOMAIN r = {"ok"}

HasFields(v, fields) == IsObj(v) /\ fields \subseteq DOMAIN v.obj

\* ItineraryItem, lines 20-23: three required str fields, other keys ignored
ValidItem(v) ==
    /\ HasFields(v, ItemFields)
    /\ \A f \in ItemFields : IsStr(v.obj[f])

ParseItem(v) == [f \in ItemFields |-> v.obj[f].str]

\* Day, lines 25-28: two required str fields and a required list of items
ValidDay(v) ==
    /\ HasFields(v, DayFields)
    /\ IsStr(v.obj["date"])
    /\ IsStr(v.obj["summary"])
    /\ IsArr(v.obj["items"])
    /\ \A i \in 1..Len(v.obj["items"].arr) : ValidItem(v.obj["items"].arr[i])

ParseDay(v) ==
    [date |-> v.obj["date"].str,
     summary |-> v.obj["summary"].str,
     items |-> [i \in 1..Len(v.obj["items"].arr) |->
                    ParseItem(v.obj["items"].arr[i])]]

\* Itinerary, lines 30-34: three required str fields and a required list of days
ValidItinerary(v) ==
    /\ HasFields(v, ItineraryFields)
    /\ IsStr(v.obj["title"])
    /\ IsStr(v.obj["startDate"])
    /\ IsStr(v.obj["endDate"])
    /\ IsArr(v.obj["days"])
    /\ \A i \in 1..Len(v.obj["days"].arr) : ValidDay(v.obj["days"].arr[i])

ParseItinerary(v) ==
    [title |-> v.obj["title"].str,
     startDate |-> v.obj["startDate"].str,
     endDate |-> v.obj["endDate"].str,
     days |-> [i \in 1..Len(v.obj["days"].arr) |->
                   ParseDay(v.obj["days"].arr[i])]]

\* faulty variant: a markdown fence around the JSON is stripped before validating
model_validate_json_unfenced(text) ==
    IF DOMAIN text = {"fenced"} /\ ValidItinerary(text.fenced)
    THEN Ok(ParseItinerary(text.fenced))
    ELSE IF DOMAIN text # {"json"} THEN Err("ValidationError: invalid JSON")
    ELSE IF ~ValidItinerary(text.json) THEN Err("ValidationError: schema")
    ELSE Ok(ParseItinerary(text.json))

\* Itinerary.model_validate_json, line 117: the text must be JSON (a fenced
\* or prose text is not) and the value must validate as an Itinerary
model_validate_json(text) ==
    IF DOMAIN text # {"json"} THEN Err("ValidationError: invalid JSON")
    ELSE IF ~ValidItinerary(text.json) THEN Err("ValidationError: schema")
    ELSE Ok(ParseItinerary(text.json))

\* serialisation of the returned Itinerary through response_model, line 67
DumpItem(it) == Obj([f \in ItemFields |-> Str(it[f])])

\* faulty variant: a day is serialised without its items
DumpDay_noItems(d) == Obj([f \in DayFields \ {"items"} |-> Str(d[f])])

DumpDay(d) ==
    Obj([f \in DayFields |->
            IF f = "items"
            THEN Arr([i \in 1..Len(d.items) |-> DumpItem(d.items[i])])
            ELSE Str(d[f])])

DumpItinerary(it) ==
    JsonText(Obj([f \in ItineraryFields |->
            IF f = "days"
            THEN Arr([i \in 1..Len(it.days) |-> DumpDay(it.days[i])])
            ELSE Str(it[f])]))

\* ------------------------------------------------- inputs: model texts
Drop(o, k) == Obj([x \in DOMAIN o.obj \ {k} |-> o.obj[x]])
With(o, k, v) == Obj([x \in DOMAIN o.obj \cup {k} |-> IF x = k THEN v ELSE o.obj[x]])

GoodItem ==
    Obj([f \in ItemFields |->
            IF f = "time" THEN Str("09:00")
            ELSE IF f = "activity" THEN Str("Fushimi Inari")
            ELSE Str("34.9671,135.7727")])

\* an item, an item without one required field, with a number where a str
\* is required, with a key the schema does not know, and a non-object
ItemVariants ==
    {GoodItem, With(GoodItem, "location", Num(34)),
     With(GoodItem, "note", Str("book ahead")), Str("09:00 Fushimi Inari")}
    \cup {Drop(GoodItem, f) : f \in ItemFields}

ItemLists == {<<>>, <<GoodItem, GoodItem>>} \cup {<<v>> : v \in ItemVariants}

Dates == <<"2025-04-10", "2025-04-11", "2025-04-12", "2025-04-13">>

DayOf(n, items) ==
    Obj([f \in DayFields |->
            IF f = "date" THEN Str(Dates[((n - 1) % Len(Dates)) + 1])
            ELSE IF f = "summary" THEN Str("Fushimi Inari & Gion")
            ELSE Arr(items)])

GoodDay(n) == DayOf(n, <<GoodItem>>)

DayVariants(n) ==
    {DayOf(n, items) : items \in ItemLists}
    \cup {Drop(GoodDay(n), f) : f \in DayFields}
    \cup {With(GoodDay(n), "summary", JNull), With(GoodDay(n), "items", Str("none")),
          With(GoodDay(n), "weather", Str("sunny")), Num(n)}

\* every list of at most MaxDays days in which at most one day is a variant
DayLists ==
    UNION {
        {[i \in 1..n |-> GoodDay(i)]}
        \cup UNION {{[i \in 1..n |-> IF i = k THEN v ELSE GoodDay(i)] :
                        v \in DayVariants(k)} : k \in 1..n}
        : n \in 0..MaxDays}

ItineraryOf(days) ==
    Obj([f \in ItineraryFields |->
            IF f = "title" THEN Str("Kyoto 5-Day Solo Trip")
            ELSE IF f = "startDate" THEN Str("2025-04-10")
            ELSE IF f = "endDate" THEN Str("2025-04-15")
            ELSE Arr(days)])

GoodItinerary == ItineraryOf(<<GoodDay(1)>>)

JsonValues ==
    {ItineraryOf(days) : days \in DayLists}
    \cup {Drop(GoodItinerary, f) : f \in ItineraryFields}
    \cup {With(GoodItinerary, "title", Num(5)), With(GoodItinerary, "endDate", JNull),
          With(GoodItinerary, "days", GoodDay(1)), With(GoodItinerary, "budget", Num(900)),
          Obj([k \in {"results"} |-> NoInfoMarker]),
          Arr(<<GoodItinerary>>), Str("Kyoto"), Num(0), JNull}

\* what the model may send as text: JSON, JSON in a markdown fence, prose
Texts ==
    {JsonText(v) : v \in JsonValues}
    \cup {[fenced |-> GoodItinerary], [garbage |-> "Here is your itinerary"],
          [garbage |-> ""]}

\* ------------------------------------------------------ inputs: queries
Pad(n) == [i \in 1..n |-> "x"]

\* the recognised phrase with its first n characters in upper case and the
\* rest in lower case
CaseVariant(n) ==
    [i \in 1..Len(Needle) |->
        IF i <= n THEN UpperChar(Needle[i]) ELSE LowerChar(Needle[i])]

PhraseVariants == {Needle} \cup {CaseVariant(n) : n \in 0..Len(Needle)}

ShortAlphabet == {"k", "K"}

RECURSIVE StringsUpTo(_)
StringsUpTo(n) ==
    IF n = 0 THEN {<<>>}
    ELSE LET shorter == StringsUpTo(n - 1)
         IN shorter \cup {Append(s, c) : s \in {t \in shorter : Len(t) = n - 1},
                                         c \in ShortAlphabet}

OtherQueries ==
    {SubSeq(Needle, 1, Len(Needle) - 1), SubSeq(Needle, 2, Len(Needle)),
     <<"h","o","t","e","l","s"," ","i","n"," ","O","s","a","k","a">>,
     <<"K","y","o","t","o"," ","r","e","s","t","a","u","r","a","n","t","s">>}

\* query strings the model may ask for
Queries ==
    {Pad(n) \o v : n \in 0..MaxPad, v \in PhraseVariants}
    \cup {Needle \o Pad(1), Pad(1) \o Lower(Needle) \o Pad(1)}
    \cup StringsUpTo(MaxShortLen)
    \cup OtherQueries

\* ------------------------------------------------ inputs: model replies
\* a reply is [candidates |-> <<[parts |-> <<part, ...>>], ...>>]; a part is
\* [text |-> t] or [function_call |-> [name |-> n, args |-> a]]; an argument
\* value is [chars |-> s] (a string) or [num |-> n]
TextPart(t) == [text |-> t]
CallPart(name, args) == [function_call |-> [name |-> name, args |-> args]]
ReplyOf(parts) == [candidates |-> <<[parts |-> parts]>>]

NoArgs == [k \in {} |-> [num |-> 0]]
QueryArgs(q) == [k \in {"query"} |-> [chars |-> q]]

SearchCalls ==
    {CallPart("perform_web_search", QueryArgs(q)) : q \in Queries}
    \cup {CallPart("perform_web_search", NoArgs),
          CallPart("perform_web_search", [k \in {"q"} |-> [chars |-> Needle]]),
          CallPart("perform_web_search", [k \in {"query"} |-> [num |-> 7]])}

OtherCalls ==
    {CallPart("web_search", QueryArgs(Needle)),
     CallPart("Perform_Web_Search", QueryArgs(Needle))}

\* what a send_message may return
Replies ==
    {ReplyOf(<<TextPart(t)>>) : t \in Texts}
    \cup {ReplyOf(<<c>>) : c \in SearchCalls \cup OtherCalls}
    \cup {ReplyOf(<<TextPart(JsonText(GoodItinerary)), c>>) :
            c \in {CallPart("perform_web_search", QueryArgs(Needle))}}
    \cup {[candidates |-> <<[parts |-> <<TextPart(JsonText(GoodItinerary))>>],
                            [parts |-> <<CallPart("perform_web_search",
                                                  QueryArgs(Needle))>>]>>],
          ReplyOf(<<>>),
          [candidates |-> <<>>]}

\* ------------------------------------------------------ inputs: requests
NoValue == [unset |-> TRUE]

\* currentItinerary: absent (None), or a dict
CurrentItineraries ==
    {NoValue,
     Obj([k \in {} |-> JNull]),
     Obj([k \in {"title"} |-> Str("Kyoto 5-Day Solo Trip")])}

Histories == {<<>>, <<[role |-> "user", text |-> "Plan 2 days in Kyoto"]>>}

\* ItineraryRequest, lines 14-17
Requests ==
    [prompt : {"Plan 2 days in Kyoto", "Add a ramen dinner"},
     history : Histories,
     currentItinerary : CurrentItineraries]

\* ------------------------------------------------------- prompt, line 81-93
\* truth value of request.currentItinerary on line 86: None and the empty
\* dict are false
Truthy(ci) == IsObj(ci) /\ DOMAIN ci.obj # {}

PreviousItinerary(ci) ==
    IF Truthy(ci) THEN JsonText(ci) ELSE [literal |-> "None"]

\* the two placeholders of the f-string; the fixed wording is left out
BuildPrompt(req) ==
    [userRequest |-> req.prompt,
     previousItinerary |-> PreviousItinerary(req.currentItinerary)]

\* ------------------------------------------------------ reading a reply
\* proto default of Part.function_call when the part holds no call
FunctionCallOf(part) ==
    IF "function_call" \in DOMAIN part THEN part.function_call
    ELSE [name |-> "", args |-> NoArgs]

\* line 98 raises IndexError when there is no candidate or no part
HasFirstPart(resp) ==
    /\ Len(resp.candidates) >= 1
    /\ Len(resp.candidates[1].parts) >= 1

\* response.text, line 116: the quick accessor gives the text of a reply
\* made of one candidate holding one text part; with no or several
\* candidates, no part or a function_call part it raises ValueError
ResponseText(resp) ==
    IF /\ Len(resp.candidates) = 1
       /\ Len(resp.candidates[1].parts) = 1
       /\ "text" \in DOMAIN resp.candidates[1].parts[1]
    THEN Ok(resp.candidates[1].parts[1].text)
    ELSE Err("ValueError")

\* faulty variant: the decoded result object is sent instead of the returned string
ToolResponse_decoded(results) ==
    [function_response |->
        [name |-> "perform_web_search", response |-> [content |-> results.json]]]

\* the Part built on lines 107-112
ToolResponse(results) ==
    [function_response |->
        [name |-> "perform_web_search", response |-> [content |-> results]]]

\* line 122
FailureResponse ==
    [status |-> 500, detail |-> "Failed to generate a valid itinerary."]

\* line 118, through response_model=Itinerary
SuccessResponse(itinerary) == [status |-> 200, body |-> DumpItinerary(itinerary)]

\* ------------------------------------------------------------- process
VARIABLES
    environ,         \* os.environ as read at import time, line 62
    handlers,        \* the handler invocations running side by side
    sessions         \* the chat sessions of those invocations

\* what no step of a single handler invocation touches
process == <<environ, handlers, sessions>>

\* an environment that sets the credential, and one that does not
Environments ==
    {[k \in {"GOOGLE_API_KEY", "PATH"} |-> "set"], [k \in {"PATH"} |-> "set"]}

\* ------------------------------------------------------------- handler
VARIABLES
    request,         \* the ItineraryRequest the handler was called with
    pc,              \* where the handler is
    chat,            \* the chat session: messages sent and replies received
    prompt,          \* the composed prompt
    response,        \* local `response`
    function_call,   \* local `function_call`
    query,           \* local `query`
    search_log,      \* queries perform_web_search was invoked with (line 43)
    search_results,  \* local `search_results`
    final_json_str,  \* local `final_json_str`
    itinerary_data,  \* local `itinerary_data`
    error,           \* the exception caught and printed on lines 120-121
    http             \* the response to the caller

vars == <<process, request, pc, chat, prompt, response, function_call, query, search_log,
          search_results, final_json_str, itinerary_data, error, http>>

locals == <<response, function_call, query, search_results, final_json_str,
            itinerary_data>>

Terminal == {"DONE", "FAILED"}

Init ==
    /\ environ \in {e \in Environments : "GOOGLE_API_KEY" \in DOMAIN e}
    /\ handlers = <<>>
    /\ sessions = <<>>
    /\ request \in Requests
    /\ pc = "ACCEPTED"
    /\ chat = <<>>
    /\ prompt = NoValue
    /\ response = NoValue
    /\ function_call = NoValue
    /\ query = NoValue
    /\ search_log = <<>>
    /\ search_results = NoValue
    /\ final_json_str = NoValue
    /\ itinerary_data = NoValue
    /\ error = NoValue
    /\ http = NoValue

\* the exception held by `e` on line 120
Raised(e) == [raised |-> e]

\* faulty variant: the exception text is surfaced as the detail
Fail_leaksDetail(e) ==
    /\ pc' = "FAILED"
    /\ error' = Raised(e)
    /\ http' = [status |-> 500, detail |-> e]

\* lines 120-122: any exception raised inside the try block
Fail(e) ==
    /\ pc' = "FAILED"
    /\ error' = Raised(e)
    /\ http' = FailureResponse

\* lines 73-97: create the model and the chat session, compose the prompt
\* and send it as the first message
SendPrompt ==
    /\ pc = "ACCEPTED"
    /\ prompt' = BuildPrompt(request)
    /\ chat' = <<[sent |-> [prompt |-> prompt']]>>
    /\ pc' = "AWAITING_MODEL"
    /\ UNCHANGED <<process, request, locals, search_log, error, http>>

\* line 97: the first send_message returns
ModelReturns ==
    /\ pc = "AWAITING_MODEL"
    /\ \E r \in Replies :
        /\ response' = r
        /\ chat' = Append(chat, [reply |-> r])
    /\ pc' = "CHECKING_TOOL_CALL"
    /\ UNCHANGED <<process, request, prompt, function_call, query, search_log,
                   search_results, final_json_str, itinerary_data, error, http>>

\* line 97: the first send_message raises (transport or provider error)
ModelRaises ==
    /\ pc = "AWAITING_MODEL"
    /\ Fail("ModelTransportError")
    /\ UNCHANGED <<process, request, chat, prompt, locals, search_log>>

\* faulty variant: any function call in the first part counts as the tool
CheckToolCall_anyName ==
    /\ pc = "CHECKING_TOOL_CALL"
    /\ IF ~HasFirstPart(response)
       THEN /\ Fail("IndexError")
            /\ UNCHANGED function_call
       ELSE /\ function_call' = FunctionCallOf(response.candidates[1].parts[1])
            /\ pc' = IF function_call'.name # ""
                     THEN "EXECUTING_TOOL"
                     ELSE "VALIDATING_OUTPUT"
            /\ UNCHANGED <<error, http>>
    /\ UNCHANGED <<process, request, chat, prompt, response, query, search_log,
                   search_results, final_json_str, itinerary_data>>

\* lines 98-101: read the function call of the first part of the first
\* candidate and compare its name
CheckToolCall ==
    /\ pc = "CHECKING_TOOL_CALL"
    /\ IF ~HasFirstPart(response)
       THEN /\ Fail("IndexError")
            /\ UNCHANGED function_call
       ELSE /\ function_call' = FunctionCallOf(response.candidates[1].parts[1])
            /\ pc' = IF function_call'.name = "perform_web_search"
                     THEN "EXECUTING_TOOL"
                     ELSE "VALIDATING_OUTPUT"
            /\ UNCHANGED <<error, http>>
    /\ UNCHANGED <<process, request, chat, prompt, response, query, search_log,
                   search_results, final_json_str, itinerary_data>>

\* faulty variant: a missing query argument is replaced by the empty string
\* (args.get("query", ""))
ExecuteTool_defaultQuery ==
    /\ pc = "EXECUTING_TOOL"
    /\ query' = IF "query" \in DOMAIN function_call.args
                THEN function_call.args["query"]
                ELSE [chars |-> <<>>]
    /\ search_log' = Append(search_log, query')
    /\ IF DOMAIN query' # {"chars"}
       THEN /\ Fail("AttributeError")
            /\ UNCHANGED <<search_results, chat>>
       ELSE /\ search_results' = perform_web_search(query'.chars)
            /\ chat' = Append(chat, [sent |-> ToolResponse(search_results')])
            /\ pc' = "AWAITING_MODEL_AFTER_TOOL"
            /\ UNCHANGED <<error, http>>
    /\ UNCHANGED <<process, request, prompt, response, function_call, final_json_str,
                   itinerary_data>>

\* lines 102-113: take the query argument, call perform_web_search and send
\* its result to the model as a function response in the same chat
ExecuteTool ==
    /\ pc = "EXECUTING_TOOL"
    /\ IF "query" \notin DOMAIN function_call.args
       THEN /\ Fail("KeyError")
            /\ UNCHANGED <<query, search_log, search_results, chat>>
       ELSE /\ query' = function_call.args["query"]
            /\ search_log' = Append(search_log, query')
            /\ IF DOMAIN query' # {"chars"}
               THEN \* line 44: a query that is no str has no lower()
                    /\ Fail("AttributeError")
                    /\ UNCHANGED <<search_results, chat>>
               ELSE /\ search_results' = perform_web_search(query'.chars)
                    /\ chat' = Append(chat, [sent |-> ToolResponse(search_results')])
                    /\ pc' = "AWAITING_MODEL_AFTER_TOOL"
                    /\ UNCHANGED <<error, http>>
    /\ UNCHANGED <<process, request, prompt, response, function_call, final_json_str,
                   itinerary_data>>

\* faulty variant: the reply to the tool response is checked for a tool call again
ModelReturnsAfterTool_loops ==
    /\ pc = "AWAITING_MODEL_AFTER_TOOL"
    /\ \E r \in Replies :
        /\ response' = r
        /\ chat' = Append(chat, [reply |-> r])
    /\ pc' = "CHECKING_TOOL_CALL"
    /\ UNCHANGED <<process, request, prompt, function_call, query, search_log,
                   search_results, final_json_str, itinerary_data, error, http>>

\* faulty variant: the reply to the tool response is not assigned to `response`
ModelReturnsAfterTool_keepsFirst ==
    /\ pc = "AWAITING_MODEL_AFTER_TOOL"
    /\ \E r \in Replies : chat' = Append(chat, [reply |-> r])
    /\ pc' = "VALIDATING_OUTPUT"
    /\ UNCHANGED <<process, request, prompt, response, function_call, query, search_log,
                   search_results, final_json_str, itinerary_data, error, http>>

\* lines 106-113: the second send_message returns.  The call hands the Part
\* over by the keyword `part`; whether the client library accepts that
\* keyword is not decided by this repository, so the call is modelled like
\* the first one: it returns a reply or it raises.
ModelReturnsAfterTool ==
    /\ pc = "AWAITING_MODEL_AFTER_TOOL"
    /\ \E r \in Replies :
        /\ response' = r
        /\ chat' = Append(chat, [reply |-> r])
    /\ pc' = "VALIDATING_OUTPUT"
    /\ UNCHANGED <<process, request, prompt, function_call, query, search_log,
                   search_results, final_json_str, itinerary_data, error, http>>

\* faulty variant: a failed second call is retried from the tool invocation
ModelRaisesAfterTool_retries ==
    /\ pc = "AWAITING_MODEL_AFTER_TOOL"
    /\ pc' = "EXECUTING_TOOL"
    /\ chat' = SubSeq(chat, 1, 2)
    /\ search_log' = <<>>
    /\ UNCHANGED <<process, request, prompt, locals, error, http>>

\* lines 106-113: the second send_message raises
ModelRaisesAfterTool ==
    /\ pc = "AWAITING_MODEL_AFTER_TOOL"
    /\ Fail("ModelTransportError")
    /\ UNCHANGED <<process, request, chat, prompt, locals, search_log>>

\* faulty variant: a tool call in the final reply is served in another round
ValidateOutput_anotherRound ==
    /\ pc = "VALIDATING_OUTPUT"
    /\ LET text == ResponseText(response) IN
       IF /\ HasFirstPart(response)
          /\ FunctionCallOf(response.candidates[1].parts[1]).name = "perform_web_search"
       THEN /\ pc' = "CHECKING_TOOL_CALL"
            /\ UNCHANGED <<final_json_str, itinerary_data, error, http>>
       ELSE IF ~IsOk(text)
       THEN /\ Fail(text.err)
            /\ UNCHANGED <<final_json_str, itinerary_data>>
       ELSE /\ final_json_str' = text.ok
            /\ LET parsed == model_validate_json(text.ok) IN
               IF ~IsOk(parsed)
               THEN /\ Fail(parsed.err)
                    /\ UNCHANGED itinerary_data
               ELSE /\ itinerary_data' = parsed.ok
                    /\ http' = SuccessResponse(parsed.ok)
                    /\ pc' = "DONE"
                    /\ UNCHANGED error
    /\ UNCHANGED <<process, request, chat, prompt, response, function_call, query,
                   search_log, search_results>>

\* lines 116-118: take the text of the last reply, validate it against the
\* Itinerary schema and return the parsed itinerary
ValidateOutput ==
    /\ pc = "VALIDATING_OUTPUT"
    /\ LET text == ResponseText(response) IN
       IF ~IsOk(text)
       THEN /\ Fail(text.err)
            /\ UNCHANGED <<final_json_str, itinerary_data>>
       ELSE /\ final_json_str' = text.ok
            /\ LET parsed == model_validate_json(text.ok) IN
               IF ~IsOk(parsed)
               THEN /\ Fail(parsed.err)
                    /\ UNCHANGED itinerary_data
               ELSE /\ itinerary_data' = parsed.ok
                    /\ http' = SuccessResponse(parsed.ok)
                    /\ pc' = "DONE"
                    /\ UNCHANGED error
    /\ UNCHANGED <<process, request, chat, prompt, response, function_call, query,
                   search_log, search_results>>

Next ==
    \/ SendPrompt
    \/ ModelReturns
    \/ ModelRaises
    \/ CheckToolCall
    \/ ExecuteTool
    \/ ModelReturnsAfterTool
    \/ ModelRaisesAfterTool
    \/ ValidateOutput

Spec == Init /\ [][Next]_vars

\* every handler step is taken, and every outbound model call returns or
\* raises
LiveSpec == Spec /\ WF_vars(Next)

\* --------------------------------------------------------------- typing
TypeOK ==
    /\ request \in Requests
    /\ pc \in {"ACCEPTED", "AWAITING_MODEL", "CHECKING_TOOL_CALL", "EXECUTING_TOOL",
               "AWAITING_MODEL_AFTER_TOOL", "VALIDATING_OUTPUT", "DONE", "FAILED"}
    /\ Len(chat) <= 4
    /\ Len(search_log) <= 1

\* ----------------------------------------------------- reading the chat
IsSent(i) == i \in 1..Len(chat) /\ "sent" \in DOMAIN chat[i]
IsReply(i) == i \in 1..Len(chat) /\ "reply" \in DOMAIN chat[i]

\* number of send_message calls made so far
ModelCalls == Cardinality({i \in 1..Len(chat) : IsSent(i)})

IsToolResponse(i) == IsSent(i) /\ "function_response" \in DOMAIN chat[i].sent

\* the reply is one part, a perform_web_search call with a string query
IsSearchRequest(r) ==
    /\ HasFirstPart(r)
    /\ "function_call" \in DOMAIN r.candidates[1].parts[1]
    /\ r.candidates[1].parts[1].function_call.name = "perform_web_search"
    /\ "query" \in DOMAIN r.candidates[1].parts[1].function_call.args
    /\ DOMAIN r.candidates[1].parts[1].function_call.args["query"] = {"chars"}

RequestedQuery(r) == r.candidates[1].parts[1].function_call.args["query"].chars

\* the reply holds no function call at all: one candidate, one text part
IsPlainText(r) ==
    /\ Len(r.candidates) = 1
    /\ Len(r.candidates[1].parts) = 1
    /\ "text" \in DOMAIN r.candidates[1].parts[1]

PlainText(r) == r.candidates[1].parts[1].text

\* what the caller gets when reply r is taken as the final answer
OutcomeOf(r) ==
    IF IsOk(ResponseText(r)) /\ IsOk(model_validate_json(ResponseText(r).ok))
    THEN SuccessResponse(model_validate_json(ResponseText(r).ok).ok)
    ELSE FailureResponse

\* ------------------------------------------------------------------ C1
\* C1: when the first reply is a perform_web_search call carrying a query,
\* the Search Tool is invoked exactly once with that query, its result is
\* sent back as a tool-response message in the same chat, and the caller's
\* outcome is decided by the reply to that second message, not by the first
\* reply.
C1_ToolRoundTrip ==
    (/\ IsReply(2)
     /\ IsSearchRequest(chat[2].reply)
     /\ pc \notin {"CHECKING_TOOL_CALL", "EXECUTING_TOOL"})
    => /\ search_log = <<[chars |-> RequestedQuery(chat[2].reply)]>>
       /\ IsSent(1) /\ "prompt" \in DOMAIN chat[1].sent
       /\ IsSent(3)
       /\ chat[3].sent = ToolResponse(perform_web_search(RequestedQuery(chat[2].reply)))
       /\ (pc = "AWAITING_MODEL_AFTER_TOOL" => Len(chat) = 3)
       /\ (pc = "VALIDATING_OUTPUT" => Len(chat) = 4 /\ response = chat[4].reply)
       /\ (pc \in Terminal /\ Len(chat) = 3 =>
             error = Raised("ModelTransportError") /\ http = FailureResponse)
       /\ (pc \in Terminal /\ Len(chat) # 3 =>
             Len(chat) = 4 /\ IsReply(4) /\ http = OutcomeOf(chat[4].reply))

\* a request answered 200 from the reply that followed the tool response
C1_Witness ==
    /\ pc = "DONE"
    /\ Len(chat) = 4
    /\ IsSearchRequest(chat[2].reply)
    /\ RequestedQuery(chat[2].reply) = Needle
    /\ http.status = 200

\* ------------------------------------------------------------------ C2
NotJson(text) == DOMAIN text # {"json"}

LacksField(v, fields) == ~IsObj(v) \/ \E f \in fields : f \notin DOMAIN v.obj

\* a required field of the Itinerary, of one of its days or of one of their
\* items is missing
LacksRequiredField(v) ==
    \/ LacksField(v, ItineraryFields)
    \/ /\ IsArr(v.obj["days"])
       /\ \E i \in 1..Len(v.obj["days"].arr) :
            LET d == v.obj["days"].arr[i] IN
            \/ LacksField(d, DayFields)
            \/ /\ IsArr(d.obj["items"])
               /\ \E j \in 1..Len(d.obj["items"].arr) :
                    LacksField(d.obj["items"].arr[j], ItemFields)

\* the handler ended on a reply that has a text: the final model text
EndedOnText ==
    /\ pc \in Terminal
    /\ IsReply(Len(chat))
    /\ IsOk(ResponseText(chat[Len(chat)].reply))

FinalText == ResponseText(chat[Len(chat)].reply).ok

\* C2: a final model text that is not JSON, or is JSON lacking a required
\* field, is answered 500 with the generic message; a 200 is returned only
\* for a final text that validated completely, and its body lacks no field.
C2_InvalidTextIs500 ==
    /\ (EndedOnText /\ (NotJson(FinalText) \/ LacksRequiredField(FinalText.json))
          => http = FailureResponse)
    /\ (http # NoValue /\ http.status = 200
          => /\ EndedOnText
             /\ ~NotJson(FinalText)
             /\ ValidItinerary(FinalText.json)
             /\ ~NotJson(http.body)
             /\ ~LacksRequiredField(http.body.json))

\* 500 for a final text that is JSON with one day lacking `items`
C2_Witness ==
    /\ EndedOnText
    /\ ~NotJson(FinalText)
    /\ IsObj(FinalText.json)
    /\ ~LacksField(FinalText.json, ItineraryFields)
    /\ LacksRequiredField(FinalText.json)
    /\ http = FailureResponse

\* ------------------------------------------------------------------ C3
\* C3: when the first reply holds no tool call and its text is well-formed
\* Itinerary JSON, the answer is 200, the body is the itinerary parsed from
\* that text and parses back to it, the Search Tool is never invoked and one
\* model call is made.
C3_DirectAnswer ==
    (/\ IsReply(2)
     /\ IsPlainText(chat[2].reply)
     /\ ~NotJson(PlainText(chat[2].reply))
     /\ ValidItinerary(PlainText(chat[2].reply).json))
    => /\ search_log = <<>>
       /\ ModelCalls = 1
       /\ Len(chat) = 2
       /\ pc \in {"CHECKING_TOOL_CALL", "VALIDATING_OUTPUT", "DONE"}
       /\ (pc = "DONE" =>
            /\ http.status = 200
            /\ itinerary_data = ParseItinerary(PlainText(chat[2].reply).json)
            /\ http.body = DumpItinerary(itinerary_data)
            /\ model_validate_json(http.body) = Ok(itinerary_data))

\* a direct answer with two days, returned 200
C3_Witness ==
    /\ pc = "DONE"
    /\ Len(chat) = 2
    /\ search_log = <<>>
    /\ Len(itinerary_data.days) = 2
    /\ http.status = 200

\* ------------------------------------------------------------------ C4
\* the query contains "restaurants in Kyoto" in some letter case
ContainsPhraseAnyCase(q) == Contains(Lower(Needle), Lower(q))

SearchInvokedWithString ==
    /\ Len(search_log) = 1
    /\ DOMAIN search_log[1] = {"chars"}
    /\ pc # "EXECUTING_TOOL"

\* C4: for every query that contains "restaurants in Kyoto" in any letter
\* case, perform_web_search returns a results value that is exactly the two
\* sample entries "Kikunoi Roan" and "Gogyo Ramen".
C4_KyotoQueryGetsSamples ==
    (SearchInvokedWithString /\ ContainsPhraseAnyCase(search_log[1].chars))
    => /\ search_results # NoValue
       /\ DOMAIN search_results = {"json"}
       /\ search_results.json.obj["results"] = SampleResults

\* ------------------------------------------------------------------ C5
\* C5: every tool-response message sent to the model is labelled
\* perform_web_search and carries exactly the value the Search Tool returned
\* for the query of the tool call in the first reply of the same request.
C5_ToolResponsePayload ==
    \A i \in 1..Len(chat) :
        IsToolResponse(i)
        => /\ i = 3
           /\ IsReply(2)
           /\ IsSearchRequest(chat[2].reply)
           /\ chat[i].sent.function_response.name = "perform_web_search"
           /\ DOMAIN chat[i].sent.function_response.response = {"content"}
           /\ chat[i].sent.function_response.response["content"]
                = perform_web_search(RequestedQuery(chat[2].reply))
           /\ chat[i].sent.function_response.response["content"] = search_results
           /\ DOMAIN search_results = {"json"}

\* a tool response was sent for a padded upper-case query
C5_Witness ==
    /\ IsToolResponse(3)
    /\ RequestedQuery(chat[2].reply) = Pad(1) \o CaseVariant(Len(Needle))
    /\ pc = "AWAITING_MODEL_AFTER_TOOL"

\* ------------------------------------------------------------------ C6
\* C6: a request makes at least one and at most two model calls and at most
\* one Search Tool invocation; the second model call comes only after a
\* Search Tool invocation; after a failure nothing is called again.
C6_CallBounds ==
    /\ ModelCalls <= 2
    /\ (pc # "ACCEPTED" => ModelCalls >= 1)
    /\ Len(search_log) <= 1
    /\ (ModelCalls = 2 => Len(search_log) = 1 /\ IsToolResponse(3))
    /\ (error # NoValue => pc = "FAILED")
    /\ (pc \in Terminal => ~ENABLED Next)

\* two model calls and one search, ended by a failure of the second call
C6_Witness ==
    /\ pc = "FAILED"
    /\ ModelCalls = 2
    /\ Len(search_log) = 1
    /\ error = Raised("ModelTransportError")

\* ------------------------------------------------------------------ C7
\* C7: every failure, whatever its kind and place, gives the caller the same
\* response: status 500 with the detail "Failed to generate a valid
\* itinerary."
C7_UniformFailure ==
    /\ (pc = "FAILED" \/ error # NoValue
          => http = [status |-> 500,
                     detail |-> "Failed to generate a valid itinerary."])
    /\ (http # NoValue /\ http.status # 200
          => http = [status |-> 500,
                     detail |-> "Failed to generate a valid itinerary."])

\* a failure of the tool-call arguments, which is not a transport error
C7_Witness ==
    /\ pc = "FAILED"
    /\ error = Raised("KeyError")
    /\ http.status = 500

\* ------------------------------------------------------------------ C8
\* C8: the prompt embeds the JSON serialisation of currentItinerary whenever
\* one is provided, the empty object included, and the literal None exactly
\* when currentItinerary is absent.
C8_PreviousItineraryEmbedded ==
    prompt # NoValue
    => /\ (IsObj(request.currentItinerary)
             => prompt.previousItinerary = JsonText(request.currentItinerary))
       /\ (prompt.previousItinerary = [literal |-> "None"]
             <=> request.currentItinerary = NoValue)

\* ------------------------------------------------------------------ C9
\* C9: for every query string that does not contain the recognised phrase the
\* results value is the "no information found" marker, and for every query
\* string perform_web_search returns, without failing, a JSON-encoded object
\* with a results key.
C9_UnrecognisedQueryGetsMarker ==
    SearchInvokedWithString
    => /\ error # Raised("AttributeError")
       /\ search_results # NoValue
       /\ DOMAIN search_results = {"json"}
       /\ IsObj(search_results.json)
       /\ "results" \in DOMAIN search_results.json.obj
       /\ (~ContainsPhraseAnyCase(search_log[1].chars)
             => search_results.json.obj["results"] = NoInfoMarker)

\* the marker was returned for a query that names restaurants and Kyoto but
\* not the phrase
C9_Witness ==
    /\ SearchInvokedWithString
    /\ Contains(SubSeq(Needle, 1, 11), Lower(search_log[1].chars))
    /\ ~ContainsPhraseAnyCase(search_log[1].chars)
    /\ search_results = ResultsObject(NoInfoMarker)

\* ----------------------------------------------------------------- C10
\* position of a handler state on the path from acceptance to an outcome
Rank(p) ==
    CASE p = "ACCEPTED" -> 0
      [] p = "AWAITING_MODEL" -> 1
      [] p = "CHECKING_TOOL_CALL" -> 2
      [] p = "EXECUTING_TOOL" -> 3
      [] p = "AWAITING_MODEL_AFTER_TOOL" -> 4
      [] p = "VALIDATING_OUTPUT" -> 5
      [] p \in Terminal -> 6

\* C10: provided every model call returns or raises, an accepted request
\* eventually reaches exactly one outcome, DONE with a 200 or FAILED with a
\* 500; every step moves the handler forward, so it cannot cycle, and nothing
\* happens after the outcome.
C10_RunsToOneOutcome ==
    /\ <>(pc \in Terminal)
    /\ [][Rank(pc') > Rank(pc)]_vars
    /\ [](pc = "DONE" <=> (http # NoValue /\ http.status = 200))
    /\ [](pc = "FAILED" <=> http = FailureResponse)
    /\ [](pc \notin Terminal <=> http = NoValue)

\* an outcome reached over the longest path: two model calls, then a reply
\* that fails the schema
C10_Witness ==
    /\ pc = "FAILED"
    /\ ModelCalls = 2
    /\ IsReply(4)
    /\ error = Raised("ValidationError: schema")
    /\ http = FailureResponse

\* ------------------------------------------- handlers running side by side
\* The request dispatcher may run several invocations of generate_itinerary
\* at once.  handlers[r] holds the locals of invocation r (the same names as
\* the variables above), sessions[c] the chat session c.  Steps of different
\* invocations interleave in any order.

\* number of invocations in flight
NumRequests == 2

RequestIds == 1..NumRequests

HistoryRecord == [role |-> "user", text |-> "Plan 2 days in Kyoto"]

\* bodies of the concurrent requests: two prompts, with and without history
ConcRequests ==
    {[prompt |-> "Plan 2 days in Kyoto", history |-> <<>>,
      currentItinerary |-> NoValue],
     [prompt |-> "Plan 2 days in Kyoto", history |-> <<HistoryRecord>>,
      currentItinerary |-> NoValue],
     [prompt |-> "Add a ramen dinner", history |-> <<>>,
      currentItinerary |-> Obj([k \in {"title"} |-> Str("Kyoto 5-Day Solo Trip")])]}

OsakaQuery == <<"h","o","t","e","l","s"," ","i","n"," ","O","s","a","k","a">>

\* what a send_message may return to a concurrent invocation
ConcReplies ==
    {ReplyOf(<<CallPart("perform_web_search", QueryArgs(Needle))>>),
     ReplyOf(<<CallPart("perform_web_search", QueryArgs(OsakaQuery))>>),
     ReplyOf(<<TextPart(JsonText(GoodItinerary))>>)}

\* the locals of an invocation on entry, line 68
NewHandler(req) ==
    [request |-> req, pc |-> "ACCEPTED", chat |-> NoValue, prompt |-> NoValue,
     response |-> NoValue, function_call |-> NoValue, query |-> NoValue,
     search_log |-> <<>>, search_results |-> NoValue,
     final_json_str |-> NoValue, itinerary_data |-> NoValue,
     error |-> NoValue, http |-> NoValue]

\* faulty variant: one chat session, created once, is used by every invocation
ChatOf_shared(r) == 1

\* lines 73-77: the model and the chat session are created inside the
\* invocation, so invocation r gets a session of its own
ChatOf(r) == r

\* faulty variant: the session is started from the request's history
StartChat_withHistory(req) ==
    [i \in 1..Len(req.history) |-> [prior |-> req.history[i]]]

\* line 77: start_chat() is called without a history
StartChat(req) == <<>>

\* lines 120-122 for an invocation
HandlerFailed(h, e) ==
    [h EXCEPT !.pc = "FAILED", !.error = Raised(e), !.http = FailureResponse]

UnchangedSingle ==
    UNCHANGED <<environ, request, pc, chat, prompt, response, function_call, query,
                search_log, search_results, final_json_str, itinerary_data,
                error, http>>

\* lines 73-97
H_SendPrompt(r) ==
    LET h == handlers[r]
        p == BuildPrompt(h.request)
        c == ChatOf(r)
    IN /\ h.pc = "ACCEPTED"
       /\ handlers' = [handlers EXCEPT ![r] =
                          [h EXCEPT !.pc = "AWAITING_MODEL", !.prompt = p, !.chat = c]]
       /\ sessions' = [sessions EXCEPT ![c] =
                          Append(StartChat(h.request), [sent |-> [prompt |-> p]])]
       /\ UnchangedSingle

\* line 97: the first send_message returns
H_ModelReturns(r) ==
    LET h == handlers[r]
    IN /\ h.pc = "AWAITING_MODEL"
       /\ \E rep \in ConcReplies :
            /\ handlers' = [handlers EXCEPT ![r] =
                               [h EXCEPT !.pc = "CHECKING_TOOL_CALL", !.response = rep]]
            /\ sessions' = [sessions EXCEPT ![h.chat] = Append(@, [reply |-> rep])]
       /\ UnchangedSingle

\* line 97: the first send_message raises
H_ModelRaises(r) ==
    LET h == handlers[r]
    IN /\ h.pc = "AWAITING_MODEL"
       /\ handlers' = [handlers EXCEPT ![r] = HandlerFailed(h, "ModelTransportError")]
       /\ UNCHANGED sessions
       /\ UnchangedSingle

\* lines 98-101
H_CheckToolCall(r) ==
    LET h == handlers[r]
    IN /\ h.pc = "CHECKING_TOOL_CALL"
       /\ handlers' = [handlers EXCEPT ![r] =
            IF ~HasFirstPart(h.response) THEN HandlerFailed(h, "IndexError")
            ELSE LET fc == FunctionCallOf(h.response.candidates[1].parts[1])
                 IN [h EXCEPT !.function_call = fc,
                              !.pc = IF fc.name = "perform_web_search"
                                     THEN "EXECUTING_TOOL"
                                     ELSE "VALIDATING_OUTPUT"]]
       /\ UNCHANGED sessions
       /\ UnchangedSingle

\* lines 102-113
H_ExecuteTool(r) ==
    LET h == handlers[r]
    IN /\ h.pc = "EXECUTING_TOOL"
       /\ IF "query" \notin DOMAIN h.function_call.args
          THEN /\ handlers' = [handlers EXCEPT ![r] = HandlerFailed(h, "KeyError")]
               /\ UNCHANGED sessions
          ELSE LET q == h.function_call.args["query"]
                   called == [h EXCEPT !.query = q,
                                       !.search_log = Append(@, q)]
               IN IF DOMAIN q # {"chars"}
                  THEN /\ handlers' = [handlers EXCEPT ![r] =
                                          HandlerFailed(called, "AttributeError")]
                       /\ UNCHANGED sessions
                  ELSE LET res == perform_web_search(q.chars)
                       IN /\ handlers' = [handlers EXCEPT ![r] =
                                [called EXCEPT !.search_results = res,
                                               !.pc = "AWAITING_MODEL_AFTER_TOOL"]]
                          /\ sessions' = [sessions EXCEPT ![h.chat] =
                                Append(@, [sent |-> ToolResponse(res)])]
       /\ UnchangedSingle

\* lines 106-113: the second send_message returns
H_ModelReturnsAfterTool(r) ==
    LET h == handlers[r]
    IN /\ h.pc = "AWAITING_MODEL_AFTER_TOOL"
       /\ \E rep \in ConcReplies :
            /\ handlers' = [handlers EXCEPT ![r] =
                               [h EXCEPT !.pc = "VALIDATING_OUTPUT", !.response = rep]]
            /\ sessions' = [sessions EXCEPT ![h.chat] = Append(@, [reply |-> rep])]
       /\ UnchangedSingle

\* lines 106-113: the second send_message raises
H_ModelRaisesAfterTool(r) ==
    LET h == handlers[r]
    IN /\ h.pc = "AWAITING_MODEL_AFTER_TOOL"
       /\ handlers' = [handlers EXCEPT ![r] = HandlerFailed(h, "ModelTransportError")]
       /\ UNCHANGED sessions
       /\ UnchangedSingle

\* lines 116-118
H_ValidateOutput(r) ==
    LET h == handlers[r]
        text == ResponseText(h.response)
    IN /\ h.pc = "VALIDATING_OUTPUT"
       /\ handlers' = [handlers EXCEPT ![r] =
            IF ~IsOk(text) THEN HandlerFailed(h, text.err)
            ELSE LET parsed == model_validate_json(text.ok)
                     read == [h EXCEPT !.final_json_str = text.ok]
                 IN IF ~IsOk(parsed) THEN HandlerFailed(read, parsed.err)
                    ELSE [read EXCEPT !.itinerary_data = parsed.ok,
                                      !.http = SuccessResponse(parsed.ok),
                                      !.pc = "DONE"]]
       /\ UNCHANGED sessions
       /\ UnchangedSingle

ConcInit ==
    /\ environ \in {e \in Environments : "GOOGLE_API_KEY" \in DOMAIN e}
    /\ handlers \in [RequestIds -> {NewHandler(req) : req \in ConcRequests}]
    /\ sessions = [c \in RequestIds |-> <<>>]
    /\ request = NoValue
    /\ pc = "NOT_RUNNING"
    /\ chat = <<>>
    /\ prompt = NoValue
    /\ response = NoValue
    /\ function_call = NoValue
    /\ query = NoValue
    /\ search_log = <<>>
    /\ search_results = NoValue
    /\ final_json_str = NoValue
    /\ itinerary_data = NoValue
    /\ error = NoValue
    /\ http = NoValue

ConcNext ==
    \/ \E r \in RequestIds : H_SendPrompt(r)
    \/ \E r \in RequestIds : H_ModelReturns(r)
    \/ \E r \in RequestIds : H_ModelRaises(r)
    \/ \E r \in RequestIds : H_CheckToolCall(r)
    \/ \E r \in RequestIds : H_ExecuteTool(r)
    \/ \E r \in RequestIds : H_ModelReturnsAfterTool(r)
    \/ \E r \in RequestIds : H_ModelRaisesAfterTool(r)
    \/ \E r \in RequestIds : H_ValidateOutput(r)

ConcSpec == ConcInit /\ [][ConcNext]_vars

\* ----------------------------------------------------------------- C11
\* the chat session invocation r uses
OwnSession(r) == sessions[handlers[r].chat]

\* how many entries the session of an invocation holds at each position
SessionLengths(p) ==
    CASE p = "AWAITING_MODEL" -> {1}
      [] p \in {"CHECKING_TOOL_CALL", "EXECUTING_TOOL"} -> {2}
      [] p = "AWAITING_MODEL_AFTER_TOOL" -> {3}
      [] p = "VALIDATING_OUTPUT" -> {2, 4}
      [] p \in Terminal -> {1, 2, 3, 4}

\* the response a finished invocation owes to the exchange in session s
FinalOf(s) ==
    IF Len(s) \in {1, 3} THEN FailureResponse
    ELSE IF Len(s) = 2 /\ ~HasFirstPart(s[2].reply) THEN FailureResponse
    ELSE IF /\ Len(s) = 2
            /\ FunctionCallOf(s[2].reply.candidates[1].parts[1]).name
                 = "perform_web_search"
         THEN FailureResponse
    ELSE OutcomeOf(s[Len(s)].reply)

\* invocation r talks in a session of its own, which holds its own prompt,
\* the replies returned to it and its own tool response, and its response
\* to the caller is the one that exchange gives
OwnExchange(r) ==
    LET h == handlers[r] IN
    h.pc # "ACCEPTED"
    => /\ \A o \in RequestIds \ {r} :
            handlers[o].pc # "ACCEPTED" => handlers[o].chat # h.chat
       /\ Len(OwnSession(r)) \in SessionLengths(h.pc)
       /\ h.prompt = BuildPrompt(h.request)
       /\ OwnSession(r)[1] = [sent |-> [prompt |-> BuildPrompt(h.request)]]
       /\ (Len(OwnSession(r)) >= 2 /\ h.pc # "FAILED" /\ Len(OwnSession(r)) # 3
             => h.response = OwnSession(r)[Len(OwnSession(r))].reply)
       /\ (Len(OwnSession(r)) >= 3
             => /\ IsSearchRequest(OwnSession(r)[2].reply)
                /\ h.search_log = <<[chars |-> RequestedQuery(OwnSession(r)[2].reply)]>>
                /\ h.search_results
                     = perform_web_search(RequestedQuery(OwnSession(r)[2].reply))
                /\ OwnSession(r)[3] = [sent |-> ToolResponse(h.search_results)])
       /\ (h.pc \in Terminal => h.http = FinalOf(OwnSession(r)))
       /\ (h.pc \notin Terminal => h.http = NoValue)

\* C11: under any interleaving of concurrent requests each request has its
\* own chat session and prompt, and its tool-response payload and final
\* response are those its own body and the replies in its own session give,
\* whatever the other requests send, ask for or receive.
C11_RequestScoped == \A r \in RequestIds : OwnExchange(r)

\* request 1 is answered 200 after a search for one query while request 2,
\* with another prompt, waits for the reply to its search for another query
C11_Witness ==
    /\ handlers[1].pc = "DONE"
    /\ handlers[1].query = [chars |-> Needle]
    /\ handlers[2].pc = "AWAITING_MODEL_AFTER_TOOL"
    /\ handlers[2].query = [chars |-> OsakaQuery]
    /\ handlers[1].request.prompt # handlers[2].request.prompt

\* ------------------------------------------------------- process startup
\* In StartupSpec pc also follows the process: "STARTING" while the module is
\* imported, then "SERVING" (the route of line 67 is registered and no
\* request is in the handler) or "STARTUP_FAILED".

\* faulty variant: a missing credential is tolerated (os.environ.get)
Startup_tolerant ==
    /\ pc = "STARTING"
    /\ pc' = "SERVING"
    /\ UNCHANGED <<process, request, chat, prompt, locals, search_log, error, http>>

\* lines 61-64: genai.configure reads os.environ["GOOGLE_API_KEY"]; a
\* KeyError becomes a RuntimeError raised at import, before the route of
\* line 67 exists
Startup ==
    /\ pc = "STARTING"
    /\ pc' = IF "GOOGLE_API_KEY" \in DOMAIN environ
             THEN "SERVING"
             ELSE "STARTUP_FAILED"
    /\ UNCHANGED <<process, request, chat, prompt, locals, search_log, error, http>>

\* lines 67-68: the dispatcher calls generate_itinerary with a request; the
\* invocation starts with fresh locals
Accept ==
    /\ pc \in {"SERVING"} \cup Terminal
    /\ request' \in Requests
    /\ pc' = "ACCEPTED"
    /\ chat' = <<>>
    /\ prompt' = NoValue
    /\ response' = NoValue
    /\ function_call' = NoValue
    /\ query' = NoValue
    /\ search_log' = <<>>
    /\ search_results' = NoValue
    /\ final_json_str' = NoValue
    /\ itinerary_data' = NoValue
    /\ error' = NoValue
    /\ http' = NoValue
    /\ UNCHANGED process

StartupInit ==
    /\ environ \in Environments
    /\ handlers = <<>>
    /\ sessions = <<>>
    /\ request = NoValue
    /\ pc = "STARTING"
    /\ chat = <<>>
    /\ prompt = NoValue
    /\ response = NoValue
    /\ function_call = NoValue
    /\ query = NoValue
    /\ search_log = <<>>
    /\ search_results = NoValue
    /\ final_json_str = NoValue
    /\ itinerary_data = NoValue
    /\ error = NoValue
    /\ http = NoValue

StartupNext ==
    \/ Startup
    \/ Accept
    \/ Next

StartupSpec == StartupInit /\ [][StartupNext]_vars

\* ----------------------------------------------------------------- C12
CredentialMissing == "GOOGLE_API_KEY" \notin DOMAIN environ

\* C12: when GOOGLE_API_KEY is not set at startup, startup fails and no
\* request is ever handled: no request is in the handler, no message has been
\* sent to the model, no search has run and no response has been produced.
C12_NoKeyNoService ==
    CredentialMissing
    => /\ pc \in {"STARTING", "STARTUP_FAILED"}
       /\ request = NoValue
       /\ chat = <<>>
       /\ search_log = <<>>
       /\ http = NoValue
       /\ ~ENABLED Accept
       /\ ~ENABLED Next

\* startup has failed for want of the credential
C12_Witness ==
    /\ CredentialMissing
    /\ pc = "STARTUP_FAILED"

\* ----------------------------------------------------------------- C13
\* the first part of the reply is a function call, whatever its name
StartsWithCall(r) ==
    /\ HasFirstPart(r)
    /\ "function_call" \in DOMAIN r.candidates[1].parts[1]

\* C13: when the reply to the tool-response message is itself a tool call,
\* there is no further Search Tool invocation and no third model call; the
\* reply is taken as the final answer and the request ends FAILED with the
\* generic 500.
C13_SecondToolCallFails ==
    (IsReply(4) /\ StartsWithCall(chat[4].reply))
    => /\ Len(chat) = 4
       /\ ModelCalls = 2
       /\ Len(search_log) = 1
       /\ search_log = <<[chars |-> RequestedQuery(chat[2].reply)]>>
       /\ pc \in {"VALIDATING_OUTPUT", "FAILED"}
       /\ (pc = "VALIDATING_OUTPUT" => response = chat[4].reply)
       /\ (pc = "FAILED" => /\ http = FailureResponse
                            /\ error # NoValue
                            /\ itinerary_data = NoValue
                            /\ ~ENABLED Next)

\* a request that failed on a second call for the Search Tool
C13_Witness ==
    /\ pc = "FAILED"
    /\ IsReply(4)
    /\ IsSearchRequest(chat[4].reply)
    /\ http = FailureResponse

\* ----------------------------------------------------------------- C14
\* the reply's first part calls perform_web_search without a query argument
IsSearchRequestWithoutQuery(r) ==
    /\ StartsWithCall(r)
    /\ r.candidates[1].parts[1].function_call.name = "perform_web_search"
    /\ "query" \notin DOMAIN r.candidates[1].parts[1].function_call.args

\* C14: when the first reply is a perform_web_search call whose arguments
\* lack query, the request ends FAILED with the generic 500; the Search Tool
\* is not invoked, no second model call is made and no query is substituted.
C14_MissingQueryFails ==
    (IsReply(2) /\ IsSearchRequestWithoutQuery(chat[2].reply))
    => /\ Len(chat) = 2
       /\ ModelCalls = 1
       /\ search_log = <<>>
       /\ query = NoValue
       /\ search_results = NoValue
       /\ pc \in {"CHECKING_TOOL_CALL", "EXECUTING_TOOL", "FAILED"}
       /\ (pc = "FAILED" => /\ http = FailureResponse
                            /\ error = Raised("KeyError"))

\* a request that failed on a call whose only argument is named q
C14_Witness ==
    /\ pc = "FAILED"
    /\ IsReply(2)
    /\ IsSearchRequestWithoutQuery(chat[2].reply)
    /\ DOMAIN chat[2].reply.candidates[1].parts[1].function_call.args = {"q"}
    /\ http = FailureResponse

\* ----------------------------------------------------------------- C15
\* the first part of the first candidate is a call named perform_web_search
FirstPartCallsSearch(r) ==
    /\ StartsWithCall(r)
    /\ r.candidates[1].parts[1].function_call.name = "perform_web_search"

\* some part of some candidate of the reply is a function call
HoldsCall(r) ==
    \E i \in 1..Len(r.candidates) :
        \E j \in 1..Len(r.candidates[i].parts) :
            "function_call" \in DOMAIN r.candidates[i].parts[j]

\* C15: the Search Tool is invoked only if the first part of the first
\* candidate of the first reply is a function call named exactly
\* perform_web_search; with a call of another name, or a call in a later part
\* or candidate, there is no tool invocation and no second model call, and
\* the first reply is taken as the final answer.
C15_OnlyFirstPartTriggersTool ==
    /\ (Len(search_log) >= 1 \/ ModelCalls >= 2
          => IsReply(2) /\ FirstPartCallsSearch(chat[2].reply))
    /\ (/\ IsReply(2)
        /\ ~FirstPartCallsSearch(chat[2].reply)
        /\ pc # "CHECKING_TOOL_CALL")
       => /\ search_log = <<>>
          /\ ModelCalls = 1
          /\ Len(chat) = 2
          /\ pc \in {"VALIDATING_OUTPUT"} \cup Terminal
          /\ (pc = "VALIDATING_OUTPUT" => response = chat[2].reply)
          /\ (pc \in Terminal /\ HasFirstPart(chat[2].reply)
                => http = OutcomeOf(chat[2].reply))
          /\ (pc \in Terminal /\ ~HasFirstPart(chat[2].reply)
                => http = FailureResponse)

\* a first reply whose call sits in a later part or candidate, or has another
\* name, was taken as the final answer without a search
C15_Witness ==
    /\ pc \in Terminal
    /\ IsReply(2)
    /\ HoldsCall(chat[2].reply)
    /\ ~StartsWithCall(chat[2].reply)
    /\ search_log = <<>>
    /\ ModelCalls = 1

\* ----------------------------------------------------------------- C16
IsReplyEntry(e) == "reply" \in DOMAIN e

\* the replies invocation r has received, in order
RepliesOf(r) == SelectSeq(OwnSession(r), IsReplyEntry)

\* everything invocation r has done that the model or the caller can see
VisibleOf(r) ==
    [prompt |-> handlers[r].prompt,
     session |-> OwnSession(r),
     searches |-> handlers[r].search_log,
     http |-> handlers[r].http]

DifferOnlyInHistory(a, b) ==
    /\ a.prompt = b.prompt
    /\ a.currentItinerary = b.currentItinerary
    /\ a.history # b.history

\* C16: history has no influence: two requests that differ only in history
\* compose the same prompt, start their chat sessions with an empty prior
\* conversation and, having received the same replies, have made the same
\* model and tool calls and give the same response.
C16_HistoryIgnored ==
    \A a, b \in RequestIds :
        (/\ DifferOnlyInHistory(handlers[a].request, handlers[b].request)
         /\ handlers[a].pc # "ACCEPTED"
         /\ handlers[b].pc # "ACCEPTED")
        => /\ handlers[a].prompt = handlers[b].prompt
           /\ "sent" \in DOMAIN OwnSession(a)[1]
           /\ "sent" \in DOMAIN OwnSession(b)[1]
           /\ OwnSession(a)[1] = OwnSession(b)[1]
           /\ (handlers[a].pc = handlers[b].pc /\ RepliesOf(a) = RepliesOf(b)
                 => VisibleOf(a) = VisibleOf(b))

\* two requests that differ only in history were both answered 200 after the
\* same two replies
C16_Witness ==
    /\ DifferOnlyInHistory(handlers[1].request, handlers[2].request)
    /\ handlers[1].pc = "DONE"
    /\ handlers[2].pc = "DONE"
    /\ Len(RepliesOf(1)) = 2
    /\ RepliesOf(1) = RepliesOf(2)
    /\ handlers[1].http = handlers[2].http

====
